---- MODULE Spec2Model ----
(***************************************************************************)
(* A model of the NLP chatbot: the text pipeline of nlp_utils.py           *)
(* (tokenising, normalising, vocabulary, vectors, cosine similarity,       *)
(* intent detection), the start-up state of kb.py and the query function   *)
(* and interactive loop of main.py.                                        *)
(*                                                                         *)
(* Text is a sequence of one-character strings, so that splitting,         *)
(* lower-casing, stripping and substring search are computed, not assumed. *)
(* A token is such a sequence too.  A similarity score is the exact real   *)
(* number num / sqrt(den2), kept as the record [num, den2]; the rounding   *)
(* of sqrt and of the division in floating point is not modelled.          *)
(***************************************************************************)
EXTENDS Integers, Sequences, FiniteSets, TLC

VARIABLES
  NLTK_AVAILABLE, STOPWORDS, lemmatizer, nltk_data,
  KB, KB_tokens, VOCAB, KB_vectors,
  pc, user, event, intent, result, reply, calls,
  call, bv

envVars  == <<NLTK_AVAILABLE, STOPWORDS, lemmatizer, nltk_data>>
kbVars   == <<KB, KB_tokens, VOCAB, KB_vectors>>
loopVars == <<pc, user, event, intent, result, reply, calls>>
vars     == <<envVars, kbVars, loopVars, call, bv>>

None == "None"

(***************************************************************************)
(* Bounds of the model.                                                    *)
(***************************************************************************)
\* An input line is at most this many fragments joined by single spaces.
MaxFrags == 2
\* cosine_sim is tried on vectors of at most this length ...
MaxDim == 2
\* ... with entries in -1 .. MaxCount.
MaxCount == 2
\* normalize_tokens is tried on at most this many raw tokens.
MaxTokens == 3
\* build_vocab is tried on at most this many documents ...
MaxDocs == 2
\* ... of at most this many tokens each.
MaxDocLen == 2

(***************************************************************************)
(* Characters and strings.                                                 *)
(***************************************************************************)
LowerLetters ==
  <<"a","b","c","d","e","f","g","h","i","j","k","l","m","n","o","p","q","r","s","t","u","v","w","x","y","z">>
UpperLetters ==
  <<"A","B","C","D","E","F","G","H","I","J","K","L","M","N","O","P","Q","R","S","T","U","V","W","X","Y","Z">>

Range(s) == {s[i] : i \in DOMAIN s}

\* str.lower() on one character.
lower_char(c) ==
  IF \E i \in DOMAIN UpperLetters : UpperLetters[i] = c
  THEN LowerLetters[CHOOSE i \in DOMAIN UpperLetters : UpperLetters[i] = c]
  ELSE c

\* str.lower()
lower(s) == [i \in DOMAIN s |-> lower_char(s[i])]

\* The class \w of the regular expressions: letters, digits, underscore.
IsWordChar(c) ==
  c \in Range(LowerLetters) \cup Range(UpperLetters) \cup {"_"}

\* Whitespace, as str.strip() and str.split() see it.
IsSpace(c) == c = " "

RECURSIVE lstrip(_)
lstrip(s) ==
  IF s # <<>> /\ IsSpace(Head(s)) THEN lstrip(Tail(s)) ELSE s

RECURSIVE rstrip(_)
rstrip(s) ==
  IF s # <<>> /\ IsSpace(s[Len(s)]) THEN rstrip(SubSeq(s, 1, Len(s) - 1)) ELSE s

\* str.strip()
strip(s) == rstrip(lstrip(s))

\* g in t, on strings: g occurs in t as a contiguous substring.
Contains(t, g) ==
  \E i \in 1..(Len(t) - Len(g) + 1) : SubSeq(t, i, i + Len(g) - 1) = g

\* re.split(r"\W+", s): the pieces of s between its maximal runs of non-word
\* characters, the empty pieces at either end included.
RECURSIVE re_split_W(_, _, _)
re_split_W(s, i, cur) ==
  IF i > Len(s) THEN <<cur>>
  ELSE IF IsWordChar(s[i]) THEN re_split_W(s, i + 1, Append(cur, s[i]))
  ELSE IF i > 1 /\ ~IsWordChar(s[i - 1]) THEN re_split_W(s, i + 1, cur)
  ELSE <<cur>> \o re_split_W(s, i + 1, <<>>)

\* str.split(): the maximal runs of non-whitespace characters.
RECURSIVE str_split(_, _, _)
str_split(s, i, cur) ==
  IF i > Len(s) THEN (IF cur = <<>> THEN <<>> ELSE <<cur>>)
  ELSE IF ~IsSpace(s[i]) THEN str_split(s, i + 1, Append(cur, s[i]))
  ELSE (IF cur = <<>> THEN <<>> ELSE <<cur>>) \o str_split(s, i + 1, <<>>)

\* [t for t in tokens if t]
RECURSIVE NonEmpty(_)
NonEmpty(ts) ==
  IF ts = <<>> THEN <<>>
  ELSE IF Head(ts) = <<>> THEN NonEmpty(Tail(ts))
  ELSE <<Head(ts)>> \o NonEmpty(Tail(ts))

(***************************************************************************)
(* The optional NLTK library.  Its three corpora may each be installed or  *)
(* not (nltk_data); a call that needs a missing corpus raises LookupError. *)
(***************************************************************************)
\* stopwords.words("english"), cut to the words the model's texts use.
EnglishStopwords ==
  {
    <<"w","h","a","t">>,
    <<"i","s">>,
    <<"y","o","u","r">>,
    <<"h","o","w">>,
    <<"a","r","e">>,
    <<"y","o","u">>,
    <<"c","a","n">>,
    <<"d","o">>,
    <<"t","o">>,
    <<"m","e">>,
    <<"a">>,
    <<"t","h","i","s">>,
    <<"w","h","o">>,
    <<"w","a","s">>
  }

\* WordNetLemmatizer().lemmatize(t), the noun lemma, on the model's words.
WordNetLemma(t) ==
  CASE t = <<"w","a","s">> -> <<"w","a">>
    [] t = <<"n","a","m","e","s">> -> <<"n","a","m","e">>
    [] OTHER -> t

\* nltk.word_tokenize on lower-cased text made of letters, spaces and
\* "?" / "!": the runs of word characters, and each punctuation mark a token
\* of its own.
RECURSIVE word_tokenize(_, _, _)
word_tokenize(s, i, cur) ==
  LET flush == IF cur = <<>> THEN <<>> ELSE <<cur>> IN
  IF i > Len(s) THEN flush
  ELSE IF IsWordChar(s[i]) THEN word_tokenize(s, i + 1, Append(cur, s[i]))
  ELSE IF IsSpace(s[i]) THEN flush \o word_tokenize(s, i + 1, <<>>)
  ELSE flush \o << <<s[i]>> >> \o word_tokenize(s, i + 1, <<>>)

\* The configurations the module-level code of nlp_utils.py can end in.
Environments ==
  { [avail |-> FALSE, stop |-> {}, lem |-> None, data |-> {}],
    [avail |-> TRUE, stop |-> {}, lem |-> None, data |-> {"punkt"}],
    [avail |-> TRUE, stop |-> EnglishStopwords, lem |-> "WordNetLemmatizer",
     data |-> {"stopwords"}],
    [avail |-> TRUE, stop |-> EnglishStopwords, lem |-> "WordNetLemmatizer",
     data |-> {"stopwords", "punkt", "wordnet"}] }

SetEnv(e) ==
  /\ NLTK_AVAILABLE = e.avail
  /\ STOPWORDS = e.stop
  /\ lemmatizer = e.lem
  /\ nltk_data = e.data

InitEnv == \E e \in Environments : SetEnv(e)

\* NLTK is not installed.
NoNltk == [avail |-> FALSE, stop |-> {}, lem |-> None, data |-> {}]

(***************************************************************************)
(* nlp_utils.py: tokenising and normalising.                               *)
(***************************************************************************)
simple_tokenize(text) ==
  IF text = <<>> THEN <<>>
  ELSE NonEmpty(re_split_W(lower(text), 1, <<>>))

\* lemmatizer.lemmatize(t) inside try/except: the token itself when the call
\* raises.
lemmatize_or_keep(t) ==
  IF lemmatizer # None /\ "wordnet" \in nltk_data THEN WordNetLemma(t) ELSE t

\* The loop of normalize_tokens: acc is <<out, all_stopwords>>.
RECURSIVE normalize_loop(_, _)
normalize_loop(tokens, acc) ==
  IF tokens = <<>> THEN acc
  ELSE LET t == Head(tokens) IN
    IF t = <<>> THEN normalize_loop(Tail(tokens), acc)
    ELSE IF t \in STOPWORDS
      THEN normalize_loop(Tail(tokens), <<acc[1], Append(acc[2], t)>>)
    ELSE normalize_loop(Tail(tokens), <<Append(acc[1], lemmatize_or_keep(t)), acc[2]>>)

normalize_tokens_norecovery(tokens) ==
  IF tokens = <<>> THEN <<>>
  ELSE normalize_loop(tokens, << <<>>, <<>> >>)[1]

normalize_tokens(tokens) ==
  IF tokens = <<>> THEN <<>>
  ELSE LET acc == normalize_loop(tokens, << <<>>, <<>> >>)
           out == acc[1]
           all_stopwords == acc[2]
       IN IF out = <<>> /\ all_stopwords # <<>>
          THEN <<lemmatize_or_keep(all_stopwords[1])>>
          ELSE out

preprocess(text) ==
  IF text = <<>> THEN <<>>
  ELSE IF NLTK_AVAILABLE
    THEN IF "punkt" \in nltk_data
         THEN normalize_tokens(word_tokenize(lower(text), 1, <<>>))
         ELSE normalize_tokens(simple_tokenize(text))
  ELSE normalize_tokens(simple_tokenize(text))

(***************************************************************************)
(* nlp_utils.py: vocabulary and vectors.  A vocabulary is a function from  *)
(* tokens to indices (the dict).                                           *)
(***************************************************************************)
EmptyVocab == [t \in {} |-> 0]

vocab_len(vocab) == Cardinality(DOMAIN vocab)

\* if token and token not in vocab
is_new_token(vocab, token) == token # <<>> /\ token \notin DOMAIN vocab

\* vocab[token] = len(vocab) + 1: an off-by-one index.
vocab_put_offbyone(vocab, token) == vocab @@ (token :> vocab_len(vocab) + 1)

\* vocab[token] = len(vocab)
vocab_put(vocab, token) == vocab @@ (token :> vocab_len(vocab))

\* for token in doc, from the k-th token on.
RECURSIVE build_vocab_doc(_, _, _)
build_vocab_doc(vocab, doc, k) ==
  IF k > Len(doc) THEN vocab
  ELSE IF is_new_token(vocab, doc[k])
    THEN build_vocab_doc(vocab_put(vocab, doc[k]), doc, k + 1)
    ELSE build_vocab_doc(vocab, doc, k + 1)

\* for doc in documents, from the d-th document on; an empty one is skipped.
RECURSIVE build_vocab_from(_, _, _)
build_vocab_from(vocab, documents, d) ==
  IF d > Len(documents) THEN vocab
  ELSE IF documents[d] = <<>> THEN build_vocab_from(vocab, documents, d + 1)
  ELSE build_vocab_from(build_vocab_doc(vocab, documents[d], 1), documents, d + 1)

build_vocab(documents) == build_vocab_from(EmptyVocab, documents, 1)

RECURSIVE to_vector_loop(_, _, _)
to_vector_loop(tokens, vocab, vec) ==
  IF tokens = <<>> THEN vec
  ELSE LET t == Head(tokens) IN
    IF t \in DOMAIN vocab
    THEN to_vector_loop(Tail(tokens), vocab,
                        [vec EXCEPT ![vocab[t] + 1] = @ + 1])
    ELSE to_vector_loop(Tail(tokens), vocab, vec)

\* to_vector that also enters the unknown tokens into the dict it was given.
to_vector_learning(tokens, vocab) ==
  IF DOMAIN vocab = {} THEN [vec |-> <<>>, vocab |-> vocab]
  ELSE [vec |-> to_vector_loop(tokens, vocab, [i \in 1..vocab_len(vocab) |-> 0]),
        vocab |-> build_vocab_doc(vocab, tokens, 1)]

\* to_vector gets the dict by reference: the result is the vector returned
\* and the dict as the call leaves it.
to_vector(tokens, vocab) ==
  IF DOMAIN vocab = {} THEN [vec |-> <<>>, vocab |-> vocab]
  ELSE [vec |-> to_vector_loop(tokens, vocab, [i \in 1..vocab_len(vocab) |-> 0]),
        vocab |-> vocab]

(***************************************************************************)
(* nlp_utils.py: cosine similarity.                                        *)
(***************************************************************************)
RECURSIVE GCD(_, _)
GCD(a, b) == IF b = 0 THEN a ELSE GCD(b, a % b)

Sign(n) == IF n > 0 THEN 1 ELSE IF n < 0 THEN -1 ELSE 0

\* The real number sgn * sqrt(p / q), p / q in lowest terms: equal numbers
\* are equal records.
Zero == [sgn |-> 0, p |-> 0, q |-> 1]

\* num / sqrt(den2), for den2 > 0.
Score(num, den2) ==
  IF num = 0 THEN Zero
  ELSE LET g == GCD(num * num, den2)
       IN [sgn |-> Sign(num), p |-> (num * num) \div g, q |-> den2 \div g]

\* The rational n / d, for d > 0.
Rational(n, d) == Score(n, d * d)

\* s > t, s >= t on these numbers.
Greater(s, t) == s.sgn * s.p * t.q > t.sgn * t.p * s.q
AtLeast(s, t) == s.sgn * s.p * t.q >= t.sgn * t.p * s.q

Min(a, b) == IF a < b THEN a ELSE b

\* sum(x * y for x, y in zip(a, b)): zip stops at the shorter one.
RECURSIVE zip_dot(_, _, _)
zip_dot(a, b, i) ==
  IF i > Min(Len(a), Len(b)) THEN 0 ELSE a[i] * b[i] + zip_dot(a, b, i + 1)

\* cosine_sim without its check of the lengths.
cosine_sim_nolencheck(a, b) ==
  IF a = <<>> \/ b = <<>> THEN Zero
  ELSE LET dot == zip_dot(a, b, 1)
           na2 == zip_dot(a, a, 1)
           nb2 == zip_dot(b, b, 1)
       IN IF na2 = 0 \/ nb2 = 0 THEN Zero ELSE Score(dot, na2 * nb2)

cosine_sim(a, b) ==
  IF a = <<>> \/ b = <<>> THEN Zero
  ELSE IF Len(a) # Len(b) THEN Zero
  ELSE LET dot == zip_dot(a, b, 1)
           na2 == zip_dot(a, a, 1)
           nb2 == zip_dot(b, b, 1)
       IN \* sqrt(x) == 0 exactly when x == 0
          IF na2 = 0 \/ nb2 = 0 THEN Zero ELSE Score(dot, na2 * nb2)

(***************************************************************************)
(* nlp_utils.py: intent detection.                                         *)
(***************************************************************************)
GREETINGS ==
  <<
    <<"h","i">>,
    <<"h","e","l","l","o">>,
    <<"h","e","y">>,
    <<"g","o","o","d"," ","m","o","r","n","i","n","g">>,
    <<"g","o","o","d"," ","a","f","t","e","r","n","o","o","n">>,
    <<"g","o","o","d"," ","e","v","e","n","i","n","g">>
  >>

GOODBYES ==
  <<
    <<"b","y","e">>,
    <<"g","o","o","d","b","y","e">>,
    <<"s","e","e"," ","y","o","u">>,
    <<"e","x","i","t">>,
    <<"q","u","i","t">>,
    <<"f","a","r","e","w","e","l","l">>
  >>

THANKS ==
  <<
    <<"t","h","a","n","k","s">>,
    <<"t","h","a","n","k"," ","y","o","u">>,
    <<"t","h","x">>,
    <<"t","h","a","n","k">>,
    <<"a","p","p","r","e","c","i","a","t","e">>
  >>

\* One trigger phrase against the words and the text, a single word being
\* looked for in the text like a phrase is.
phrase_matches_substring(g, words, t) ==
  IF Contains(g, <<" ">>)
  THEN Range(str_split(g, 1, <<>>)) \subseteq words \/ Contains(t, g)
  ELSE Contains(t, g)

\* One trigger phrase against the words and the text (the body of each of
\* detect_intent's three loops).
phrase_matches(g, words, t) ==
  IF Contains(g, <<" ">>)
  THEN Range(str_split(g, 1, <<>>)) \subseteq words \/ Contains(t, g)
  ELSE g \in words

\* A loop of detect_intent returns at the first phrase that matches.
list_matches(phrases, words, t) ==
  \E i \in DOMAIN phrases : phrase_matches(phrases[i], words, t)

\* words = set(re.split(r"\W+", t)); words.discard("")
word_set(t) == Range(re_split_W(t, 1, <<>>)) \ {<<>>}

\* detect_intent with the thanks loop first.
detect_intent_thanksfirst(text) ==
  IF text = <<>> THEN None
  ELSE LET t == strip(lower(text)) IN
    IF t = <<>> THEN None
    ELSE LET words == word_set(t) IN
      IF list_matches(THANKS, words, t) THEN "thanks"
      ELSE IF list_matches(GREETINGS, words, t) THEN "greeting"
      ELSE IF list_matches(GOODBYES, words, t) THEN "goodbye"
      ELSE None

detect_intent(text) ==
  IF text = <<>> THEN None
  ELSE LET t == strip(lower(text)) IN
    IF t = <<>> THEN None
    ELSE LET words == word_set(t) IN
      IF list_matches(GREETINGS, words, t) THEN "greeting"
      ELSE IF list_matches(GOODBYES, words, t) THEN "goodbye"
      ELSE IF list_matches(THANKS, words, t) THEN "thanks"
      ELSE None


(***************************************************************************)
(* kb.py: the knowledge base, a list of (question, answer) pairs.          *)
(***************************************************************************)
KB_literal ==
  <<
    << <<"w","h","a","t"," ","i","s"," ","y","o","u","r"," ","n","a","m","e">>,
       "I'm an NLP Chatbot built with Python. You can call me Chatbot." >>,
    << <<"h","o","w"," ","a","r","e"," ","y","o","u">>,
       "I'm a program, so I don't have feelings, but I'm ready to help you!" >>,
    << <<"w","h","a","t"," ","c","a","n"," ","y","o","u"," ","d","o">>,
       "I can answer simple questions, demonstrate NLP techniques, and be extended with more data." >>,
    << <<"h","o","w"," ","t","o"," ","i","n","s","t","a","l","l"," ","n","l","t","k">>,
       "Run: pip install nltk and then use nltk.download() to get resources." >>,
    << <<"t","h","a","n","k"," ","y","o","u">>,
       "You're welcome! Happy to help." >>,
    << <<"w","h","a","t"," ","i","s"," ","p","y","t","h","o","n">>,
       "Python is a popular high-level programming language for many purposes." >>,
    << <<"t","e","l","l"," ","m","e"," ","a"," ","j","o","k","e">>,
       "Why did the programmer quit his job? Because he didn't get arrays." >>,
    << <<"w","h","a","t"," ","i","s"," ","a","i">>,
       "Artificial Intelligence (AI) is the simulation of human intelligence processes by machines, especially computer systems." >>,
    << <<"d","e","f","i","n","e"," ","m","a","c","h","i","n","e"," ","l","e","a","r","n","i","n","g">>,
       "Machine learning is a field of AI that uses statistical techniques to give computer systems the ability to learn from data." >>,
    << <<"w","h","a","t"," ","i","s"," ","n","a","t","u","r","a","l"," ","l","a","n","g","u","a","g","e"," ","p","r","o","c","e","s","s","i","n","g">>,
       "Natural Language Processing (NLP) is a field of AI focused on the interaction between computers and human (natural) languages." >>,
    << <<"h","o","w"," ","t","o"," ","u","s","e"," ","t","h","i","s"," ","c","h","a","t","b","o","t">>,
       "Just type your question. Add new Q/A pairs in kb.py to expand my knowledge." >>,
    << <<"w","h","a","t"," ","i","s"," ","y","o","u","r"," ","p","u","r","p","o","s","e">>,
       "To assist users with information and answer questions." >>,
    << <<"w","h","a","t"," ","i","s"," ","y","o","u","r"," ","n","a","m","e","?">>,
       "I'm an NLP Chatbot built with Python. You can call me Chatbot." >>,
    << <<"w","h","o"," ","c","r","e","a","t","e","d"," ","y","o","u">>,
       "I was created by a developer using Python and NLP techniques." >>,
    << <<"e","x","i","t">>,
       "Goodbye! Have a great day." >>
  >>

\* kb.py's module-level code: KB_tokens, VOCAB and KB_vectors from KB.
StartupState ==
  /\ KB = KB_literal
  /\ KB_tokens = [i \in DOMAIN KB_literal |-> preprocess(KB_literal[i][1])]
  /\ VOCAB = build_vocab(KB_tokens)
  /\ KB_vectors = [i \in DOMAIN KB_tokens |-> to_vector(KB_tokens[i], VOCAB).vec]

(***************************************************************************)
(* main.py: find_best_answer.                                              *)
(***************************************************************************)
\* if s >= best_score: a tie replaces the running best.
improves_or_ties(s, best_score) == AtLeast(s, best_score)

\* if s > best_score
improves(s, best_score) == Greater(s, best_score)

\* The scan of KB_vectors; best_idx is the source's index, from 0.
RECURSIVE scan(_, _, _, _)
scan(vec, i, best_idx, best_score) ==
  IF i > Len(KB_vectors) THEN [best_idx |-> best_idx, best_score |-> best_score]
  ELSE LET s == cosine_sim(vec, KB_vectors[i]) IN
    IF improves(s, best_score)
    THEN scan(vec, i + 1, i - 1, s)
    ELSE scan(vec, i + 1, best_idx, best_score)

\* best_score > confidence_threshold
exceeds_threshold(best_score, confidence_threshold) ==
  Greater(best_score, confidence_threshold)

\* best_score >= confidence_threshold
meets_threshold(best_score, confidence_threshold) ==
  AtLeast(best_score, confidence_threshold)

\* The value returned, (answer, score), with the arguments of the call and
\* best_idx as it is at the return; -1 stands for best_idx = None.
NoMatch(user_text, confidence_threshold, score) ==
  [called |-> TRUE, text |-> user_text, threshold |-> confidence_threshold,
   answer |-> None, score |-> score, best_idx |-> -1]

find_best_answer(user_text, confidence_threshold) ==
  IF user_text = <<>> THEN NoMatch(user_text, confidence_threshold, Zero)
  ELSE LET tokens == preprocess(user_text) IN
    IF tokens = <<>> THEN NoMatch(user_text, confidence_threshold, Zero)
    ELSE LET vec == to_vector(tokens, VOCAB).vec IN
      IF vec = <<>> \/ KB_vectors = <<>>
      THEN NoMatch(user_text, confidence_threshold, Zero)
      ELSE LET best == scan(vec, 1, -1, Zero) IN
        IF meets_threshold(best.best_score, confidence_threshold) /\ best.best_idx # -1
        THEN [called |-> TRUE, text |-> user_text, threshold |-> confidence_threshold,
              answer |-> KB[best.best_idx + 1][2], score |-> best.best_score,
              best_idx |-> best.best_idx]
        ELSE NoMatch(user_text, confidence_threshold, best.best_score)

\* VOCAB as a call of find_best_answer leaves it.
vocab_after_query(user_text) ==
  IF user_text = <<>> THEN VOCAB
  ELSE LET tokens == preprocess(user_text) IN
    IF tokens = <<>> THEN VOCAB ELSE to_vector(tokens, VOCAB).vocab

\* confidence_threshold=0.2
DefaultThreshold == Rational(1, 5)

(***************************************************************************)
(* The inputs: lines typed by the user, texts and thresholds given by a    *)
(* caller.                                                                 *)
(***************************************************************************)
Fragments ==
  {
    <<>>,
    <<"h","i">>,
    <<"h","i","s","t","o","r","y">>,
    <<"t","h","a","n","k","s">>,
    <<"t","h","a","n","k"," ","y","o","u">>,
    <<"b","y","e">>,
    <<"s","e","e"," ","y","o","u">>,
    <<"E","x","i","t">>,
    <<"w","h","a","t"," ","i","s">>,
    <<"a","i">>,
    <<"n","a","m","e","?">>,
    <<"x","y","z","z","y">>,
    <<"h","o","w"," ","a","r","e"," ","y","o","u">>
  }

RECURSIVE LinesOf(_)
LinesOf(n) ==
  IF n <= 1 THEN Fragments
  ELSE LinesOf(n - 1) \cup
       {l \o <<" ">> \o f : l \in LinesOf(n - 1), f \in Fragments}

Lines == LinesOf(MaxFrags)

\* The texts a caller of find_best_answer gives it.
QueryTexts == Fragments

Thresholds ==
  {Rational(-1, 5), Rational(0, 1), Rational(1, 5), Rational(1, 2), Rational(1, 1)}

(***************************************************************************)
(* main.py: main_loop, one action per step of an iteration.                *)
(***************************************************************************)
\* No call of find_best_answer has returned to the one who holds this.
NoResult ==
  [called |-> FALSE, text |-> <<>>, threshold |-> DefaultThreshold,
   answer |-> None, score |-> Zero, best_idx |-> -1]

\* user_lower in ("exit", "quit")
is_exit(line) ==
  strip(lower(line)) \in {<<"e","x","i","t">>, <<"q","u","i","t">>}

\* What the loop does with an intent: the reply printed and where it goes on.
\* Here a goodbye is answered and the loop continues.
intent_outcome_nobreak(i) ==
  CASE i = "greeting" -> [reply |-> "Chatbot: Hello! How can I help you today?", next |-> "continue"]
    [] i = "goodbye"  -> [reply |-> "Chatbot: Goodbye!", next |-> "continue"]
    [] i = "thanks"   -> [reply |-> "Chatbot: You're welcome!", next |-> "continue"]
    [] OTHER          -> [reply |-> "", next |-> "answer"]

\* Here thanks is not handled and falls through to find_best_answer.
intent_outcome_nothanks(i) ==
  CASE i = "greeting" -> [reply |-> "Chatbot: Hello! How can I help you today?", next |-> "continue"]
    [] i = "goodbye"  -> [reply |-> "Chatbot: Goodbye!", next |-> "done"]
    [] OTHER          -> [reply |-> "", next |-> "answer"]

intent_outcome(i) ==
  CASE i = "greeting" -> [reply |-> "Chatbot: Hello! How can I help you today?", next |-> "continue"]
    [] i = "goodbye"  -> [reply |-> "Chatbot: Goodbye!", next |-> "done"]
    [] i = "thanks"   -> [reply |-> "Chatbot: You're welcome!", next |-> "continue"]
    [] OTHER          -> [reply |-> "", next |-> "answer"]

IdleLoop ==
  /\ pc = "start"
  /\ user = <<>>
  /\ event = None
  /\ intent = None
  /\ result = NoResult
  /\ reply = ""
  /\ calls = <<>>

NoCall == [fn |-> None]
NoBuild == [documents |-> <<>>, d |-> 1, k |-> 1, vocab |-> EmptyVocab]

Init ==
  /\ InitEnv
  /\ StartupState
  /\ IdleLoop
  /\ call = NoCall
  /\ bv = NoBuild

\* A caller of the query interface, before the loop is started, calls
\* find_best_answer and gets its result ...
Query(text, threshold) ==
  /\ pc = "start"
  /\ ~result.called
  /\ result' = find_best_answer(text, threshold)
  /\ VOCAB' = vocab_after_query(text)
  /\ UNCHANGED <<envVars, KB, KB_tokens, KB_vectors>>
  /\ UNCHANGED <<pc, user, event, intent, reply, calls, call, bv>>

\* ... and is done with it.
QueryDone ==
  /\ pc = "start"
  /\ result.called
  /\ result' = NoResult
  /\ UNCHANGED <<envVars, kbVars, pc, user, event, intent, reply, calls, call, bv>>

\* main_loop is entered and prints its banner.
StartLoop ==
  /\ pc = "start"
  /\ pc' = "input"
  /\ reply' = "Type 'exit' or 'quit' to stop"
  /\ result' = NoResult
  /\ UNCHANGED <<envVars, kbVars, user, event, intent, calls, call, bv>>

\* input() raises EOFError or KeyboardInterrupt.
ReadEOF ==
  /\ pc = "input"
  /\ event' = "eof"
  /\ reply' = "Chatbot: Goodbye!"
  /\ pc' = "done"
  /\ UNCHANGED <<envVars, kbVars, user, intent, result, calls, call, bv>>

\* input() returns a line; a blank one is skipped.
ReadLine(line) ==
  /\ pc = "input"
  /\ event' = "line"
  /\ user' = line
  /\ pc' = IF strip(line) = <<>> THEN "continue" ELSE "exit_check"
  /\ UNCHANGED <<envVars, kbVars, intent, result, reply, calls, call, bv>>

ExitCheck ==
  /\ pc = "exit_check"
  /\ calls' = Append(calls, "exit_check")
  /\ IF is_exit(user)
     THEN reply' = "Chatbot: Goodbye - have a nice day!" /\ pc' = "done"
     ELSE reply' = reply /\ pc' = "intent"
  /\ UNCHANGED <<envVars, kbVars, user, event, intent, result, call, bv>>

DetectIntent ==
  /\ pc = "intent"
  /\ calls' = Append(calls, "detect_intent")
  /\ intent' = detect_intent(user)
  /\ reply' = intent_outcome(intent').reply
  /\ pc' = intent_outcome(intent').next
  /\ UNCHANGED <<envVars, kbVars, user, event, result, call, bv>>

Answer ==
  /\ pc = "answer"
  /\ calls' = Append(calls, "find_best_answer")
  /\ result' = find_best_answer(user, DefaultThreshold)
  /\ VOCAB' = vocab_after_query(user)
  /\ reply' = IF result'.answer # None
              THEN result'.answer
              ELSE "Chatbot: I'm not sure about that. You can extend the KB in kb.py."
  /\ pc' = "continue"
  /\ UNCHANGED <<envVars, KB, KB_tokens, KB_vectors, user, event, intent, call, bv>>

\* Back to the top of while True: the iteration's values are gone.
LoopBack ==
  /\ pc = "continue"
  /\ pc' = "input"
  /\ user' = <<>>
  /\ event' = None
  /\ intent' = None
  /\ result' = NoResult
  /\ reply' = ""
  /\ calls' = <<>>
  /\ UNCHANGED <<envVars, kbVars, call, bv>>

Next ==
  \/ \E text \in QueryTexts, threshold \in Thresholds : Query(text, threshold)
  \/ QueryDone
  \/ StartLoop
  \/ ReadEOF
  \/ \E line \in Lines : ReadLine(line)
  \/ ExitCheck
  \/ DetectIntent
  \/ Answer
  \/ LoopBack

Spec == Init /\ [][Next]_vars

(***************************************************************************)
(* The functions of nlp_utils.py called on their own: the arguments are    *)
(* chosen at the start, one action makes the call.                         *)
(***************************************************************************)
Vectors == UNION {[1..n -> -1..MaxCount] : n \in 0..MaxDim}

RawTokens ==
  {
    <<>>,
    <<"h","o","w">>,
    <<"a","r","e">>,
    <<"w","a","s">>,
    <<"n","a","m","e">>,
    <<"n","a","m","e","s">>
  }

RECURSIVE SeqsUpTo(_, _)
SeqsUpTo(S, n) ==
  IF n = 0 THEN {<<>>}
  ELSE SeqsUpTo(S, n - 1) \cup
       {Append(q, x) : q \in {r \in SeqsUpTo(S, n - 1) : Len(r) = n - 1}, x \in S}

DocTokens ==
  {
    <<>>,
    <<"a">>,
    <<"a","i">>
  }

Documents == SeqsUpTo(SeqsUpTo(DocTokens, MaxDocLen), MaxDocs)

InitCos ==
  /\ SetEnv(NoNltk) /\ StartupState /\ IdleLoop /\ bv = NoBuild
  /\ call \in {[fn |-> "cosine_sim", a |-> a, b |-> b, done |-> FALSE, ret |-> Zero] :
                 a \in Vectors, b \in Vectors}

CallCosine ==
  /\ call.fn = "cosine_sim" /\ ~call.done
  /\ call' = [call EXCEPT !.done = TRUE, !.ret = cosine_sim(call.a, call.b)]
  /\ UNCHANGED <<envVars, kbVars, loopVars, bv>>

SpecCos == InitCos /\ [][CallCosine]_vars

InitNorm ==
  /\ InitEnv /\ StartupState /\ IdleLoop /\ bv = NoBuild
  /\ call \in {[fn |-> "normalize_tokens", arg |-> ts, done |-> FALSE, ret |-> <<>>] :
                 ts \in SeqsUpTo(RawTokens, MaxTokens)}
           \cup {[fn |-> "preprocess", arg |-> t, done |-> FALSE, ret |-> <<>>] :
                 t \in Lines}

CallNormalize ==
  /\ call.fn = "normalize_tokens" /\ ~call.done
  /\ call' = [call EXCEPT !.done = TRUE, !.ret = normalize_tokens(call.arg)]
  /\ UNCHANGED <<envVars, kbVars, loopVars, bv>>

CallPreprocess ==
  /\ call.fn = "preprocess" /\ ~call.done
  /\ call' = [call EXCEPT !.done = TRUE, !.ret = preprocess(call.arg)]
  /\ UNCHANGED <<envVars, kbVars, loopVars, bv>>

SpecNorm == InitNorm /\ [][CallNormalize \/ CallPreprocess]_vars

InitIntent ==
  /\ SetEnv(NoNltk) /\ StartupState /\ IdleLoop /\ bv = NoBuild
  /\ call \in {[fn |-> "detect_intent", arg |-> t, done |-> FALSE, ret |-> None] :
                 t \in Lines}

CallDetectIntent ==
  /\ call.fn = "detect_intent" /\ ~call.done
  /\ call' = [call EXCEPT !.done = TRUE, !.ret = detect_intent(call.arg)]
  /\ UNCHANGED <<envVars, kbVars, loopVars, bv>>

SpecIntent == InitIntent /\ [][CallDetectIntent]_vars

(***************************************************************************)
(* build_vocab step by step: bv.d is the document the outer loop is at,    *)
(* bv.k the token the inner loop is at, bv.vocab the dict so far.          *)
(***************************************************************************)
InitVocab ==
  /\ SetEnv(NoNltk) /\ StartupState /\ IdleLoop /\ call = NoCall
  /\ bv \in {[documents |-> ds, d |-> 1, k |-> 1, vocab |-> EmptyVocab] :
               ds \in Documents}

\* if not doc: continue
BuildSkipDoc ==
  /\ bv.d <= Len(bv.documents)
  /\ bv.documents[bv.d] = <<>>
  /\ bv' = [bv EXCEPT !.d = @ + 1, !.k = 1]
  /\ UNCHANGED <<envVars, kbVars, loopVars, call>>

\* One turn of for token in doc.
BuildToken ==
  /\ bv.d <= Len(bv.documents)
  /\ bv.documents[bv.d] # <<>>
  /\ bv.k <= Len(bv.documents[bv.d])
  /\ LET token == bv.documents[bv.d][bv.k] IN
       bv' = [bv EXCEPT !.k = @ + 1,
                        !.vocab = IF is_new_token(@, token)
                                  THEN vocab_put(@, token) ELSE @]
  /\ UNCHANGED <<envVars, kbVars, loopVars, call>>

\* The inner loop is through: on to the next document.
BuildNextDoc ==
  /\ bv.d <= Len(bv.documents)
  /\ bv.documents[bv.d] # <<>>
  /\ bv.k > Len(bv.documents[bv.d])
  /\ bv' = [bv EXCEPT !.d = @ + 1, !.k = 1]
  /\ UNCHANGED <<envVars, kbVars, loopVars, call>>

SpecVocab == InitVocab /\ [][BuildSkipDoc \/ BuildToken \/ BuildNextDoc]_vars

(***************************************************************************)
(* What the claims speak of.                                               *)
(***************************************************************************)
\* The scores of the knowledge-base vectors against the vector of a text, in
\* declaration order.
RECURSIVE ScoresFrom(_, _)
ScoresFrom(vec, i) ==
  IF i > Len(KB_vectors) THEN <<>>
  ELSE <<cosine_sim(vec, KB_vectors[i])>> \o ScoresFrom(vec, i + 1)

ScoresOf(text) == ScoresFrom(to_vector(preprocess(text), VOCAB).vec, 1)

\* The entries whose score no entry's score exceeds.
TopEntries(sc) == {i \in DOMAIN sc : \A j \in DOMAIN sc : AtLeast(sc[i], sc[j])}

Least(S) == CHOOSE i \in S : \A j \in S : i <= j

\* find_best_answer has been called on a text that has tokens.
Answered == result.called /\ preprocess(result.text) # <<>>

\* C1 as stated: whenever two or more knowledge-base entries share the maximal
\* cosine score against the query vector, the answer returned is that of the
\* entry with the smallest index.
C1_TieReturnsEarliest ==
  Answered =>
    LET top == TopEntries(ScoresOf(result.text))
    IN Cardinality(top) >= 2 => result.answer = KB[Least(top)][2]

\* C1, amended: when two or more entries share the maximal score and that score
\* is above 0.0 and at least the threshold, the entry returned is the one with
\* the smallest index; when the shared maximal score is 0.0 or below the
\* threshold, no entry is returned.
C1_TieBreak ==
  Answered =>
    LET sc == ScoresOf(result.text)
        top == TopEntries(sc)
        first == Least(top)
    IN Cardinality(top) >= 2 =>
         IF Greater(sc[first], Zero) /\ AtLeast(sc[first], result.threshold)
         THEN result.best_idx = first - 1 /\ result.answer = KB[first][2]
         ELSE result.answer = None /\ result.best_idx = -1

\* A tie at the top between entries with different answers, and an answer
\* returned.
C1_Witness ==
  /\ Answered
  /\ result.answer # None
  /\ LET top == TopEntries(ScoresOf(result.text))
     IN /\ Cardinality(top) >= 2
        /\ \E i \in top : KB[i][2] # result.answer

\* C2 as stated: an answer is returned if and only if the best cosine score
\* over the knowledge-base vectors is at least the threshold; otherwise the
\* result is None with that best score.
C2_AnswerIffAtLeastThreshold ==
  result.called =>
    LET sc == ScoresOf(result.text)
        best == sc[Least(TopEntries(sc))]
    IN /\ result.answer # None <=> AtLeast(best, result.threshold)
       /\ result.answer = None => result.score = best

\* C2, amended: an answer is returned if and only if the best cosine score is
\* at least the threshold and above 0.0 (a score equal to the threshold counts);
\* otherwise the result is None; either way the score returned is the best
\* score.
C2_ThresholdBoundary ==
  result.called =>
    LET sc == ScoresOf(result.text)
        best == sc[Least(TopEntries(sc))]
    IN /\ result.answer # None <=>
            (AtLeast(best, result.threshold) /\ Greater(best, Zero))
       /\ result.score = best

\* An answer returned with a score equal to the threshold.
C2_Witness ==
  /\ result.called
  /\ result.answer # None
  /\ result.score = result.threshold

CallOrder == <<"exit_check", "detect_intent", "find_best_answer">>

ShortCircuitIntents == {"greeting", "goodbye", "thanks"}

\* C3: in an iteration of main_loop the exit/quit check comes before
\* detect_intent and detect_intent before find_best_answer; find_best_answer is
\* never called for an exit/quit line nor for a line whose intent is greeting,
\* goodbye or thanks; "thank you" gets the thanks reply and an exit line ends
\* the loop with the goodbye message, both without find_best_answer.
C3_ShortCircuit ==
  /\ \E n \in 0..Len(CallOrder) : calls = SubSeq(CallOrder, 1, n)
  /\ "detect_intent" \in Range(calls) => ~is_exit(user)
  /\ ("find_best_answer" \in Range(calls) \/ pc = "answer") =>
       /\ ~is_exit(user)
       /\ detect_intent(user) \notin ShortCircuitIntents
  /\ result.called /\ pc # "start" => "find_best_answer" \in Range(calls)
  /\ (user = <<"t","h","a","n","k"," ","y","o","u">> /\ pc \in {"continue", "done"}) =>
       /\ reply = "Chatbot: You're welcome!"
       /\ calls = <<"exit_check", "detect_intent">>
       /\ result = NoResult
  /\ (is_exit(user) /\ pc \notin {"exit_check"}) =>
       /\ pc = "done"
       /\ reply = "Chatbot: Goodbye - have a nice day!"
       /\ calls = <<"exit_check">>
       /\ result = NoResult

\* "thank you" has been answered by the thanks reply.
C3_Witness ==
  /\ user = <<"t","h","a","n","k"," ","y","o","u">>
  /\ pc = "continue"
  /\ reply = "Chatbot: You're welcome!"

\* The text has the word w as a whole word: an occurrence of w with no word
\* character right before or right after it.
WholeWord(t, w) ==
  \E i \in 1..(Len(t) - Len(w) + 1) :
    /\ SubSeq(t, i, i + Len(w) - 1) = w
    /\ i = 1 \/ ~IsWordChar(t[i - 1])
    /\ i + Len(w) > Len(t) \/ ~IsWordChar(t[i + Len(w)])

\* The matching policy of a trigger phrase, on the lower-cased trimmed text.
Triggers(g, t) ==
  IF Contains(g, <<" ">>)
  THEN \/ \A w \in Range(str_split(g, 1, <<>>)) : WholeWord(t, w)
       \/ Contains(t, g)
  ELSE WholeWord(t, g)

TriggersAny(phrases, text) ==
  \E i \in DOMAIN phrases : Triggers(phrases[i], strip(lower(text)))

\* C4: an input that matches a greeting trigger gets greeting, whatever else
\* it matches; one that matches a goodbye trigger and no greeting trigger gets
\* goodbye, even if it matches a thanks trigger.
C4_IntentPriority ==
  (call.fn = "detect_intent" /\ call.done) =>
    /\ TriggersAny(GREETINGS, call.arg) => call.ret = "greeting"
    /\ (TriggersAny(GOODBYES, call.arg) /\ ~TriggersAny(GREETINGS, call.arg)) =>
         call.ret = "goodbye"

\* An input with a greeting and a thanks trigger, answered greeting.
C4_Witness ==
  /\ call.fn = "detect_intent" /\ call.done
  /\ TriggersAny(GREETINGS, call.arg) /\ TriggersAny(THANKS, call.arg)
  /\ call.ret = "greeting"

\* C5: a single-word trigger matches only as a whole word of the input: the
\* intent returned is one whose list has a trigger that matches by the policy,
\* and a single-word trigger is in the word split exactly when it occurs as a
\* whole word.
C5_WordBoundary ==
  (call.fn = "detect_intent" /\ call.done) =>
    LET t == strip(lower(call.arg)) IN
    /\ call.ret = "greeting" => TriggersAny(GREETINGS, call.arg)
    /\ call.ret = "goodbye" => TriggersAny(GOODBYES, call.arg)
    /\ call.ret = "thanks" => TriggersAny(THANKS, call.arg)
    /\ \A phrases \in {GREETINGS, GOODBYES, THANKS} : \A i \in DOMAIN phrases :
         ~Contains(phrases[i], <<" ">>) =>
           (phrase_matches(phrases[i], word_set(t), t) <=> WholeWord(t, phrases[i]))

\* "hi" occurs in the input only inside a longer word, and no intent is found.
C5_Witness ==
  /\ call.fn = "detect_intent" /\ call.done
  /\ Contains(strip(lower(call.arg)), <<"h","i">>)
  /\ ~WholeWord(strip(lower(call.arg)), <<"h","i">>)
  /\ call.ret = None

RECURSIVE SumOver(_, _)
SumOver(f, S) ==
  IF S = {} THEN 0
  ELSE LET i == CHOOSE x \in S : TRUE IN f[i] + SumOver(f, S \ {i})

Dot(a, b) == SumOver([i \in DOMAIN a |-> a[i] * b[i]], DOMAIN a)

AllZero(a) == \A i \in DOMAIN a : a[i] = 0

Degenerate(a, b) ==
  a = <<>> \/ b = <<>> \/ Len(a) # Len(b) \/ AllZero(a) \/ AllZero(b)

\* C6: cosine_sim is exactly 0.0 when a vector is empty, the lengths differ or
\* a vector is all zero, and the dot product over the product of the norms
\* otherwise.
C6_CosineDegenerate ==
  (call.fn = "cosine_sim" /\ call.done) =>
    IF Degenerate(call.a, call.b)
    THEN call.ret = Zero
    ELSE call.ret = Score(Dot(call.a, call.b), Dot(call.a, call.a) * Dot(call.b, call.b))

\* Two non-zero vectors of different lengths whose common prefix is not
\* orthogonal.
C6_Witness ==
  /\ call.fn = "cosine_sim" /\ call.done
  /\ Len(call.a) # Len(call.b)
  /\ ~AllZero(call.a) /\ ~AllZero(call.b)
  /\ zip_dot(call.a, call.b, 1) # 0
  /\ call.ret = Zero

\* The raw tokens preprocess hands to normalize_tokens.
RawTokensOf(text) ==
  IF NLTK_AVAILABLE /\ "punkt" \in nltk_data
  THEN word_tokenize(lower(text), 1, <<>>)
  ELSE simple_tokenize(text)

Recovered(raw, out) ==
  (raw # <<>> /\ \A i \in DOMAIN raw : raw[i] # <<>>) =>
    /\ (\A i \in DOMAIN raw : raw[i] \in STOPWORDS) =>
         out = <<lemmatize_or_keep(raw[1])>>
    /\ out # <<>>

\* C7: normalising a non-empty sequence of non-empty raw tokens that are all
\* stopwords gives exactly the first token (lemmatized when the lemmatizer
\* works), and normalising a non-empty sequence of non-empty raw tokens never
\* gives the empty sequence; so for preprocess on its raw tokens.
C7_AllStopwordRecovery ==
  /\ (call.fn = "normalize_tokens" /\ call.done) => Recovered(call.arg, call.ret)
  /\ (call.fn = "preprocess" /\ call.done /\ call.arg # <<>>) =>
       Recovered(RawTokensOf(call.arg), call.ret)

\* "how are you", all stopwords, comes out as the single token "how".
C7_Witness ==
  /\ call.fn = "preprocess" /\ call.done
  /\ call.arg = <<"h","o","w"," ","a","r","e"," ","y","o","u">>
  /\ STOPWORDS # {}
  /\ call.ret = <<<<"h","o","w">>>>

\* The tokens build_vocab has been through.
RECURSIVE Flatten(_)
Flatten(ds) == IF ds = <<>> THEN <<>> ELSE Head(ds) \o Flatten(Tail(ds))

SeenTokens ==
  IF bv.d > Len(bv.documents) THEN Flatten(bv.documents)
  ELSE Flatten(SubSeq(bv.documents, 1, bv.d - 1))
       \o SubSeq(bv.documents[bv.d], 1, bv.k - 1)

FirstAt(seen, t) == CHOOSE i \in DOMAIN seen : seen[i] = t /\ \A j \in 1..(i - 1) : seen[j] # t

VocabInvariant ==
  LET seen == SeenTokens
      vocab == bv.vocab
  IN /\ DOMAIN vocab = Range(seen) \ {<<>>}
     /\ {vocab[t] : t \in DOMAIN vocab} = 0..(Cardinality(DOMAIN vocab) - 1)
     /\ \A t \in DOMAIN vocab :
          vocab[t] = Cardinality({seen[j] : j \in 1..(FirstAt(seen, t) - 1)} \ {<<>>})

IndicesKept ==
  \A t \in DOMAIN bv.vocab : t \in DOMAIN bv'.vocab /\ bv'.vocab[t] = bv.vocab[t]

\* C8: after any prefix of the documents the vocabulary maps the distinct
\* non-empty tokens seen so far one-to-one onto 0..size-1, each to the number
\* of distinct tokens first seen before it, and an index once given is kept.
C8_VocabInvariant == [](VocabInvariant) /\ [][IndicesKept]_vars

\* build_vocab is through two documents with a repeated token and an empty
\* token, and has given two indices.
C8_Witness ==
  /\ bv.d > Len(bv.documents)
  /\ <<>> \in Range(SeenTokens)
  /\ Cardinality(DOMAIN bv.vocab) = 2
  /\ Len(SeenTokens) = 4

\* The result held is what find_best_answer gives for its text and threshold
\* in the state as it is now.
ResultReproducible ==
  result.called => result = find_best_answer(result.text, result.threshold)

\* C9: KB, KB_tokens, VOCAB and KB_vectors are what the start-up code made
\* them and no query and no step of the loop changes them; so the result of
\* find_best_answer is what the call gives whenever it is made, whatever was
\* asked before.
C9_StartupReadOnly ==
  StartupState /\ [](ResultReproducible) /\ [][UNCHANGED kbVars]_vars

\* The loop has answered a line from the knowledge base.
C9_Witness ==
  /\ pc = "continue"
  /\ result.called
  /\ result.answer # None

\* The line read ends the loop: exit/quit, or a goodbye intent.
EndsLoop(line) ==
  /\ strip(line) # <<>>
  /\ is_exit(line) \/ detect_intent(line) = "goodbye"

LoopEndsOnlyOn ==
  /\ pc = "done" => (event = "eof" \/ (event = "line" /\ EndsLoop(user)))
  /\ pc = "continue" => (event = "line" /\ ~EndsLoop(user))

LoopGoesOn ==
  /\ pc = "continue" => pc' = "input"
  /\ pc = "done" => UNCHANGED vars

\* C10: the loop ends exactly on end of input, on an exit/quit line, or on a
\* line with the goodbye intent; after any other line it goes on to read the
\* next one; and once it has ended nothing changes any more.
C10_Termination == [](LoopEndsOnlyOn) /\ [][LoopGoesOn]_vars

\* The loop has ended on a goodbye line that is not exit/quit.
C10_Witness ==
  /\ pc = "done"
  /\ event = "line"
  /\ ~is_exit(user)
  /\ intent = "goodbye"
====
